---- MODULE Spec2Model ----
(***************************************************************************)
(* GapBuffer<T, A> of src/src/lib.rs as a state machine.                   *)
(*                                                                         *)
(* The backing region is a sequence of slots; slot k of the source (a      *)
(* 0-based pointer offset) is buffer[k + 1] here.  A slot holds the bits   *)
(* last written to it: ptr::copy and ptr::read leave their source slots as *)
(* they were, so a slot of the gap may still hold the bits of an element   *)
(* that has moved away.  A slot that was never written holds Uninit.       *)
(* Elements are identified by the order of their creation (1, 2, 3, ...),  *)
(* so that each element's release can be counted.                          *)
(***************************************************************************)
EXTENDS Integers, Sequences, FiniteSets

\* ------------------------------------------------------------ bounds
\* Elements created over one behaviour.
MaxElems == 3
\* How far past len() the indices handed to get/insert/delete range.
Beyond == 1
\* Largest size handed to gap_ensure_size when it is called directly.
MaxSize == 3

\* size_of::<T>() of the element types considered (one per branch of
\* MIN_NON_ZERO_CAP).
ElemSizes == {1, 2, 1024, 1025}

VARIABLES
    self,        \* the GapBuffer: buffer, buffer_capacity, gap_start, gap_len
    elem_size,   \* mem::size_of::<T>()
    pc,          \* "live", "dropped", "boxed" (consumed by into), "crashed"
    model,       \* reference ordered sequence under the same operations
    released,    \* element -> times it was handed back or torn down
    torn,        \* physical slots drop_in_place was invoked on
    n_insert,    \* successful insert/push calls since construction
    n_delete,    \* successful delete calls since construction
    last,        \* the last call: its name, its index, the buffer before it
    ret,         \* what the last call returned
    origin,      \* the packed array the buffer was built from, while untouched
    boxed,       \* the packed array produced by From<GapBuffer<T>>
    heap         \* the layouts (in slots) handed to Allocator::deallocate

vars == <<self, elem_size, pc, model, released, torn, n_insert, n_delete,
          last, ret, origin, boxed, heap>>

\* ------------------------------------------------------------ values
\* A slot of freshly allocated (or grown) memory that was never written.
Uninit == 0
Elems == 1..MaxElems
\* What reading uninitialized or out-of-bounds memory may produce: the bits
\* of any element, or some other bit pattern (MaxElems + 1).
AnyBits == 1..(MaxElems + 1)

None == [kind |-> "None", val |-> 0]
Some(v) == [kind |-> "Some", val |-> v]
Panic == [kind |-> "panic", val |-> 0]
Unit == [kind |-> "unit", val |-> 0]
Value(v) == [kind |-> "value", val |-> v]

NoArray == <<0>>

\* ------------------------------------------------------------ helpers
Max(a, b) == IF a >= b THEN a ELSE b

Repeat(x, n) == [k \in 1..n |-> x]

\* The bits at pointer offset k; memory outside the region is unknown.
At(buffer, k) == IF k >= 0 /\ k < Len(buffer) THEN buffer[k + 1] ELSE Uninit

\* ptr::copy(buffer + src, buffer + dst, count): memmove semantics.
copy(buffer, src, dst, count) ==
    [k \in 1..Len(buffer) |->
        IF k - 1 >= dst /\ k - 1 < dst + count
        THEN At(buffer, (k - 1) - dst + src)
        ELSE buffer[k]]

\* ------------------------------------------------------------ GapBuffer
New ==
    [buffer |-> << >>, buffer_capacity |-> 0, gap_start |-> 0, gap_len |-> 0]

\* Mutant: the 1024-byte boundary taken as exclusive.
MIN_NON_ZERO_CAP_below_1024 ==
    IF elem_size = 1 THEN 8 ELSE IF elem_size < 1024 THEN 4 ELSE 1

MIN_NON_ZERO_CAP ==
    IF elem_size = 1 THEN 8 ELSE IF elem_size <= 1024 THEN 4 ELSE 1

len(b) == b.buffer_capacity - b.gap_len

capacity(b) == b.buffer_capacity

\* The pointer offset get(i) dereferences, for i < len().
get_offset(b, i) ==
    IF i < b.gap_start THEN i ELSE i + b.gap_start + b.gap_len

\* Mutant: the bound check of get off by one.
get_is_none_above(b, i) == i > len(b)

\* get(i) is None for i >= len().
get_is_none(b, i) == i >= len(b)

\* The results get(i) may give: reading a slot that was never written, or
\* one outside the region, is undefined and may give any bits.
get(b, i) ==
    IF get_is_none(b, i)
    THEN {None}
    ELSE LET v == At(b.buffer, get_offset(b, i))
         IN  IF v = Uninit THEN {Some(x) : x \in AnyBits} ELSE {Some(v)}

\* Mutant: the move to the left copies one element too few.
gap_move_to_short(b, i) ==
    IF i # b.gap_start
    THEN [b EXCEPT
            !.buffer = IF i < b.gap_start
                       THEN copy(b.buffer, i, i + b.gap_len, b.gap_start - i - 1)
                       ELSE copy(b.buffer, b.gap_start + b.gap_len,
                                 b.gap_start, i - b.gap_start),
            !.gap_start = i]
    ELSE b

gap_move_to(b, i) ==
    IF i # b.gap_start
    THEN [b EXCEPT
            !.buffer = IF i < b.gap_start
                       THEN copy(b.buffer, i, i + b.gap_len, b.gap_start - i)
                       ELSE copy(b.buffer, b.gap_start + b.gap_len,
                                 b.gap_start, i - b.gap_start),
            !.gap_start = i]
    ELSE b

\* Mutant: growth also when the gap is exactly the requested size.
gap_too_small_or_equal(b, size) == b.gap_len <= size

\* gap_ensure_size grows when the gap is smaller than the requested size.
gap_too_small(b, size) == b.gap_len < size

\* Mutant: growth without the MIN_NON_ZERO_CAP floor.
gap_ensure_size_no_floor(b, size) ==
    IF gap_too_small(b, size)
    THEN LET new_capacity == Max(b.buffer_capacity * 2, size)
             new_gap_len == new_capacity - len(b)
         IN  [b EXCEPT
                !.buffer = b.buffer \o Repeat(Uninit, new_capacity - b.buffer_capacity),
                !.buffer_capacity = new_capacity,
                !.gap_len = new_gap_len]
    ELSE b

\* Mutant: growth that takes the whole new region as the gap.
gap_ensure_size_full_gap(b, size) ==
    IF gap_too_small(b, size)
    THEN LET new_capacity == Max(Max(b.buffer_capacity * 2, size), MIN_NON_ZERO_CAP)
             new_gap_len == new_capacity
         IN  [b EXCEPT
                !.buffer = b.buffer \o Repeat(Uninit, new_capacity - b.buffer_capacity),
                !.buffer_capacity = new_capacity,
                !.gap_len = new_gap_len]
    ELSE b

\* Allocator::grow keeps the old slots where they are and appends
\* uninitialized ones; Allocator::allocate gives uninitialized slots.
gap_ensure_size(b, size) ==
    IF gap_too_small(b, size)
    THEN LET new_capacity == Max(Max(b.buffer_capacity * 2, size), MIN_NON_ZERO_CAP)
             new_gap_len == new_capacity - len(b)
         IN  [b EXCEPT
                !.buffer = b.buffer \o Repeat(Uninit, new_capacity - b.buffer_capacity),
                !.buffer_capacity = new_capacity,
                !.gap_len = new_gap_len]
    ELSE b

insert_out_of_bound(b, i) == i > len(b)

\* Mutant: the bound check of delete off by one.
delete_out_of_bound_above(b, i) == i > len(b)

delete_out_of_bound(b, i) == i >= len(b)

\* Mutant: insert that forgets gap_len -= 1.
insert_keeps_gap_len(b, i, value) ==
    LET m == gap_move_to(b, i)
        g == gap_ensure_size(m, 1)
        w == [g EXCEPT !.buffer = [k \in 1..Len(g.buffer) |->
                                      IF k - 1 = g.gap_start THEN value
                                      ELSE g.buffer[k]]]
    IN  [w EXCEPT !.gap_start = w.gap_start + 1]

\* insert(i, value) past its bound check.
insert(b, i, value) ==
    LET m == gap_move_to(b, i)
        g == gap_ensure_size(m, 1)
        w == [g EXCEPT !.buffer = [k \in 1..Len(g.buffer) |->
                                      IF k - 1 = g.gap_start THEN value
                                      ELSE g.buffer[k]]]
    IN  [w EXCEPT !.gap_start = w.gap_start + 1, !.gap_len = w.gap_len - 1]

\* delete(i) past its bound check: the buffer it leaves.
delete(b, i) ==
    LET m == gap_move_to(b, i)
    IN  [m EXCEPT !.gap_len = m.gap_len + 1]

\* Mutant: delete reads the first slot of the gap, not the last.
delete_offset_first(d) == d.gap_start

\* The pointer offset delete reads its result from, in the buffer it leaves.
delete_offset(d) == d.gap_start + d.gap_len - 1

\* The bits delete(i) reads as its result (Uninit: never written).
delete_read(b, i) == At(delete(b, i).buffer, delete_offset(delete(b, i)))

\* ------------------------------------------------------------ views
\* The slots of the left run followed by those of the right run.
LeftSlots(b) == [k \in 1..b.gap_start |-> k - 1]
RightSlots(b) ==
    [k \in 1..(b.buffer_capacity - b.gap_start - b.gap_len) |->
        b.gap_start + b.gap_len + k - 1]
LiveSlots(b) == LeftSlots(b) \o RightSlots(b)

\* The logical content: the bits in the live slots, in order.
Content(b) == [k \in 1..Len(LiveSlots(b)) |-> At(b.buffer, LiveSlots(b)[k])]

\* Reference sequence operations.
SeqInsert(s, i, v) == SubSeq(s, 1, i) \o <<v>> \o SubSeq(s, i + 1, Len(s))
SeqDelete(s, i) == SubSeq(s, 1, i) \o SubSeq(s, i + 2, Len(s))

\* How often e occurs in s.
Occ(s, e) == Cardinality({k \in 1..Len(s) : s[k] = e})

\* Mutant: a layout also for capacity 0.
buffer_layout_always(b) == <<b.buffer_capacity>>

\* buffer_layout(): no layout (the empty sequence) when buffer_capacity is
\* 0, else the layout of buffer_capacity slots.
buffer_layout(b) ==
    IF b.buffer_capacity = 0 THEN << >> ELSE <<b.buffer_capacity>>

\* ------------------------------------------------------------ Debug
\* What fmt writes, as tokens: '[', ", ", "[...]", ']' and the elements.
Tok(t, v) == [t |-> t, v |-> v]
Open == Tok("[", 0)
Close == Tok("]", 0)
Sep == Tok(", ", 0)
GapMark == Tok("[...]", 0)
Elem(v) == Tok("elem", v)

RECURSIVE Concat(_)
Concat(ss) == IF ss = << >> THEN << >> ELSE Head(ss) \o Concat(Tail(ss))

\* for i in 0..gap_start: ", " before every element but the first.
fmt_left(b) ==
    Concat([k \in 1..b.gap_start |->
        (IF k - 1 # 0 THEN <<Sep>> ELSE << >>) \o <<Elem(At(b.buffer, k - 1))>>])

\* if gap_len > 0: the one string ", [...]".
fmt_gap(b) == IF b.gap_len > 0 THEN <<Sep, GapMark>> ELSE << >>

\* for i in gap_start + gap_len..buffer_capacity: ", " before every element.
fmt_right(b) ==
    Concat([k \in 1..Len(RightSlots(b)) |->
        <<Sep, Elem(At(b.buffer, RightSlots(b)[k]))>>])

\* fmt::Debug for GapBuffer.  An element is shown by the bits of its slot.
fmt(b) == <<Open>> \o fmt_left(b) \o fmt_gap(b) \o fmt_right(b) \o <<Close>>

\* ------------------------------------------------------------ composites
push(b, value) == insert(b, len(b), value)

RECURSIVE push_all(_, _)
\* for value in vec { self.push(value) }
push_all(b, vec) ==
    IF vec = << >> THEN b ELSE push_all(push(b, Head(vec)), Tail(vec))

buffer_extend_from_vec(b, vec) == push_all(gap_ensure_size(b, Len(vec)), vec)

\* From<Box<[T]>> for GapBuffer<T>
from_box(value) == buffer_extend_from_vec(New, value)

RECURSIVE drain(_, _)
\* for _ in 0..n { vec.push(value.delete(0)) }: the buffer left and the bits read.
drain(b, n) ==
    IF n <= 0
    THEN [buf |-> b, out |-> << >>]
    ELSE LET r == drain(delete(b, 0), n - 1)
         IN  [buf |-> r.buf, out |-> <<delete_read(b, 0)>> \o r.out]

\* From<GapBuffer<T>> for Box<[T]>, before the buffer is dropped.
into_box(b) == drain(b, len(b))

\* The slots Drop invokes drop_in_place on: [0, gap_start) and
\* [gap_start + gap_len, buffer_capacity).
drop_slots(b) == LiveSlots(b)

\* released, after the bits in s were handed back or torn down (bits that
\* were never written are no element).
Release(rel, s) == [e \in DOMAIN rel |-> rel[e] + Occ(s, e)]

\* The arrays a read of the bits raw may produce: a slot that was never
\* written reads as any bits.
Reads(raw) ==
    LET unknown == {k \in 1..Len(raw) : raw[k] = Uninit}
    IN  {[k \in 1..Len(raw) |-> IF k \in unknown THEN f[k] ELSE raw[k]] :
            f \in [unknown -> AnyBits]}

\* ------------------------------------------------------------ actions
Init ==
    /\ self = New
    /\ elem_size \in ElemSizes
    /\ pc = "live"
    /\ model = << >>
    /\ released = [e \in Elems |-> 0]
    /\ torn = {}
    /\ n_insert = 0
    /\ n_delete = 0
    /\ last = [op |-> "new", i |-> 0, pre |-> New]
    /\ ret = Unit
    /\ origin = NoArray
    /\ boxed = NoArray
    /\ heap = << >>

Indices == 0..(len(self) + Beyond)

\* GapBuffer::from(Box<[T]>): a buffer built from the array <<1, ..., n>>.
FromBox ==
    /\ pc = "live"
    /\ last.op = "new"
    /\ \E n \in 0..MaxElems :
        LET value == [k \in 1..n |-> k]
        IN  /\ self' = from_box(value)
            /\ model' = value
            /\ origin' = value
            /\ n_insert' = n
            /\ last' = [op |-> "from_box", i |-> n, pre |-> self]
    /\ ret' = Unit
    /\ UNCHANGED <<elem_size, pc, released, torn, n_delete, boxed, heap>>

Get ==
    /\ pc = "live"
    /\ \E i \in Indices :
        /\ ret' \in get(self, i)
        /\ last' = [op |-> "get", i |-> i, pre |-> self]
    /\ UNCHANGED <<self, elem_size, pc, model, released, torn, n_insert,
                   n_delete, origin, boxed, heap>>

\* A successful insert of a new element at i, reported as op.
DoInsert(op, i) ==
    /\ n_insert < MaxElems
    /\ self' = insert(self, i, n_insert + 1)
    /\ model' = SeqInsert(model, i, n_insert + 1)
    /\ n_insert' = n_insert + 1
    /\ last' = [op |-> op, i |-> i, pre |-> self]
    /\ ret' = Unit
    /\ origin' = NoArray
    /\ UNCHANGED <<elem_size, pc, released, torn, n_delete, boxed, heap>>

\* A call that panics at its bound check.
DoPanic(op, i) ==
    /\ last' = [op |-> op, i |-> i, pre |-> self]
    /\ ret' = Panic
    /\ UNCHANGED <<self, elem_size, pc, model, released, torn, n_insert,
                   n_delete, origin, boxed, heap>>

Push ==
    /\ pc = "live"
    /\ DoInsert("push", len(self))

Insert ==
    /\ pc = "live"
    /\ \E i \in Indices :
        IF insert_out_of_bound(self, i)
        THEN DoPanic("insert", i)
        ELSE DoInsert("insert", i)

Delete ==
    /\ pc = "live"
    /\ \E i \in Indices :
        IF delete_out_of_bound(self, i)
        THEN DoPanic("delete", i)
        ELSE /\ self' = delete(self, i)
             /\ \E bits \in Reads(<<delete_read(self, i)>>) :
                    ret' = Value(bits[1])
             /\ released' = Release(released, <<delete_read(self, i)>>)
             /\ model' = SeqDelete(model, i)
             /\ n_delete' = n_delete + 1
             /\ last' = [op |-> "delete", i |-> i, pre |-> self]
             /\ origin' = NoArray
             /\ UNCHANGED <<elem_size, pc, torn, n_insert, boxed, heap>>

\* Box::<[T]>::from(buffer): drains the buffer, then drops it.
IntoBox ==
    /\ pc = "live"
    /\ LET r == into_box(self)
       IN  /\ boxed' \in Reads(r.out)
           /\ self' = r.buf
           /\ torn' = {drop_slots(r.buf)[k] : k \in 1..Len(drop_slots(r.buf))}
           /\ released' = Release(Release(released, r.out), Content(r.buf))
           /\ heap' = heap \o buffer_layout(r.buf)
    /\ pc' = "boxed"
    /\ model' = << >>
    /\ n_delete' = n_delete + len(self)
    /\ last' = [op |-> "into_box", i |-> 0, pre |-> self]
    /\ ret' = Unit
    /\ UNCHANGED <<elem_size, n_insert, origin>>

\* Drop: tears down both runs.  Tearing down a slot that was never written
\* is undefined: the process may go on or crash.
Drop ==
    /\ pc = "live"
    /\ torn' = {drop_slots(self)[k] : k \in 1..Len(drop_slots(self))}
    /\ released' = Release(released, Content(self))
    /\ pc' \in IF \E k \in 1..Len(Content(self)) : Content(self)[k] = Uninit
               THEN {"dropped", "crashed"}
               ELSE {"dropped"}
    /\ heap' = heap \o buffer_layout(self)
    /\ last' = [op |-> "drop", i |-> 0, pre |-> self]
    /\ ret' = Unit
    /\ UNCHANGED <<self, elem_size, model, n_insert, n_delete, origin, boxed>>

\* format!("{:?}", buffer)
Fmt ==
    /\ pc = "live"
    /\ last' = [op |-> "fmt", i |-> 0, pre |-> self]
    /\ ret' = Unit
    /\ UNCHANGED <<self, elem_size, pc, model, released, torn, n_insert,
                   n_delete, origin, boxed, heap>>

Next ==
    \/ FromBox
    \/ Get
    \/ Fmt
    \/ Push
    \/ Insert
    \/ Delete
    \/ IntoBox
    \/ Drop

Spec == Init /\ [][Next]_vars

\* ------------------------------------------------------------ helpers called
\* The private helpers called directly, as the tests of the crate do.
EnsureSize ==
    /\ pc = "live"
    /\ \E size \in 0..MaxSize :
        /\ self' = gap_ensure_size(self, size)
        /\ last' = [op |-> "gap_ensure_size", i |-> size, pre |-> self]
    /\ ret' = Unit
    /\ origin' = NoArray
    /\ UNCHANGED <<elem_size, pc, model, released, torn, n_insert, n_delete,
                   boxed, heap>>

MoveTo ==
    /\ pc = "live"
    /\ \E i \in 0..len(self) :
        /\ self' = gap_move_to(self, i)
        /\ last' = [op |-> "gap_move_to", i |-> i, pre |-> self]
    /\ ret' = Unit
    /\ origin' = NoArray
    /\ UNCHANGED <<elem_size, pc, model, released, torn, n_insert, n_delete,
                   boxed, heap>>

\* Elements are pushed; the gap is then moved and grown by direct calls.
NextInternal ==
    \/ Push
    \/ EnsureSize
    \/ MoveTo

SpecInternal == Init /\ [][NextInternal]_vars

\* ------------------------------------------------------------ claims
\* The last call was a successful insert or push / a successful delete.
Inserted == last.op \in {"insert", "push"} /\ ret = Unit
Deleted == last.op = "delete" /\ ret.kind = "value"

\* C1: after any sequence of push, insert and delete, get(i) for every
\* i < len() gives exactly the element the reference sequence holds at i.
C1_GetMatchesReference ==
    pc = "live" =>
        \A i \in 0..(len(self) - 1) : get(self, i) = {Some(model[i + 1])}

\* C2: after insert(i, v) (push: i = len) on content s, the content is
\* s[0..i) ++ [v] ++ s[i..len), also when the insert grows the buffer.
C2_InsertContent ==
    Inserted =>
        Content(self) = SeqInsert(Content(last.pre), last.i, n_insert)

\* C3: delete(i) on content s returns the element s[i] and leaves
\* s[0..i) ++ s[i+1..len).
C3_DeleteContent ==
    Deleted =>
        /\ Content(last.pre)[last.i + 1] \in Elems
        /\ ret.val = Content(last.pre)[last.i + 1]
        /\ Content(self) = SeqDelete(Content(last.pre), last.i)

\* C4: for i < len(), get(i) reads slot i when i < gap_start and slot
\* i + gap_len otherwise, a slot inside the region and outside the gap.
C4_GetSlot ==
    pc = "live" =>
        \A i \in 0..(len(self) - 1) :
            /\ get_offset(self, i) =
                   (IF i < self.gap_start THEN i ELSE i + self.gap_len)
            /\ get_offset(self, i) >= 0
            /\ get_offset(self, i) < self.buffer_capacity
            /\ ~(/\ get_offset(self, i) >= self.gap_start
                 /\ get_offset(self, i) < self.gap_start + self.gap_len)

\* C5: get(i) is None for every i >= len(), without a panic and without
\* changing the buffer, also on an empty buffer.
C5_GetAbsent ==
    /\ pc = "live" =>
          \A i \in len(self)..(len(self) + Beyond) : get(self, i) = {None}
    /\ (last.op = "get" /\ last.i >= len(last.pre)) =>
          ret = None /\ self = last.pre /\ pc = "live"

\* C5 witness: get past the end of a buffer that deletes have emptied.
C5_Witness ==
    /\ last.op = "get"
    /\ ret = None
    /\ len(self) = 0
    /\ n_delete > 0
    /\ capacity(self) > 0

\* C6: insert(i, v) with i > len() and delete(i) with i >= len() panic
\* before any change to gap_start, gap_len, buffer_capacity or any slot.
C6_OutOfBoundsPanics ==
    /\ (last.op = "insert" /\ last.i > len(last.pre)) =>
          ret = Panic /\ self = last.pre
    /\ (last.op = "delete" /\ last.i >= len(last.pre)) =>
          ret = Panic /\ self = last.pre

\* C6 witness: delete(len) panicked on a buffer holding elements on both
\* sides of a non-empty gap.
C6_Witness ==
    /\ last.op = "delete"
    /\ last.i = len(self)
    /\ ret = Panic
    /\ self.gap_start > 0
    /\ self.gap_len > 0
    /\ len(self) > self.gap_start

\* C7: an array converted into a buffer and back is the same array.
C7_RoundTrip ==
    (pc = "boxed" /\ origin # NoArray) => boxed = origin

\* C7 witness: a round trip of an array longer than MIN_NON_ZERO_CAP.
C7_Witness ==
    /\ pc = "boxed"
    /\ origin # NoArray
    /\ Len(origin) > MIN_NON_ZERO_CAP
    /\ boxed = origin

\* C8: once the buffer is dropped every element ever inserted has been
\* released exactly once, and drop tore down no slot that was never written.
C8_ExactlyOnce ==
    pc \in {"dropped", "crashed"} =>
        /\ \A e \in 1..n_insert : released[e] = 1
        /\ \A k \in torn : At(self.buffer, k) # Uninit

\* C9: len() = buffer_capacity - gap_len = successful inserts - successful
\* deletes; insert and push add one, delete takes one, and growth, gap
\* relocation and get leave it as it is.
C9_Len ==
    /\ len(self) = self.buffer_capacity - self.gap_len
    /\ len(self) = n_insert - n_delete
    /\ Inserted => len(self) = len(last.pre) + 1
    /\ Deleted => len(self) = len(last.pre) - 1
    /\ last.op = "get" => len(self) = len(last.pre)
    /\ \A i \in 0..len(self) : len(gap_move_to(self, i)) = len(self)
    /\ \A size \in 0..(2 * capacity(self) + 2) :
          len(gap_ensure_size(self, size)) = len(self)

\* C9 witness: an insert that grew the buffer, after some delete.
C9_Witness ==
    /\ last.op = "insert"
    /\ ret = Unit
    /\ n_delete > 0
    /\ capacity(self) > capacity(last.pre)
    /\ len(self) = len(last.pre) + 1

\* C10: capacity() never decreases; delete, get and gap relocation leave
\* it as it is, and insert and push change it only when gap_len = 0.
C10_CapacityMonotone ==
    /\ capacity(self) >= capacity(last.pre)
    /\ last.op \in {"delete", "get"} => capacity(self) = capacity(last.pre)
    /\ (Inserted /\ capacity(self) # capacity(last.pre)) =>
          last.pre.gap_len = 0 /\ capacity(self) > capacity(last.pre)
    /\ \A i \in 0..len(self) :
          capacity(gap_move_to(self, i)) = capacity(self)

\* C10 witness: a delete emptied a buffer that had grown past its first
\* allocation, and the capacity stayed.
C10_Witness ==
    /\ Deleted
    /\ len(self) = 0
    /\ capacity(self) > MIN_NON_ZERO_CAP
    /\ capacity(self) = capacity(last.pre)

\* C11: gap_ensure_size(s) leaves capacity and gap_len as they are when
\* gap_len >= s, and otherwise sets the capacity to max(2c, s,
\* MIN_NON_ZERO_CAP) and gap_len to the new capacity minus len; sizes 32,
\* 64, 65 on an empty buffer of 1-byte elements give capacities 32, 64, 128.
C11_GrowthFormula ==
    /\ last.op = "gap_ensure_size" =>
          IF last.pre.gap_len >= last.i
          THEN /\ capacity(self) = capacity(last.pre)
               /\ self.gap_len = last.pre.gap_len
          ELSE /\ capacity(self) =
                      Max(2 * capacity(last.pre), Max(last.i, MIN_NON_ZERO_CAP))
               /\ self.gap_len = capacity(self) - len(last.pre)
    /\ elem_size = 1 =>
          LET b32 == gap_ensure_size(New, 32)
              b64 == gap_ensure_size(b32, 64)
              b65 == gap_ensure_size(b64, 65)
          IN  /\ b32.buffer_capacity = 32 /\ b32.gap_len = 32
              /\ b64.buffer_capacity = 64 /\ b64.gap_len = 64
              /\ b65.buffer_capacity = 128 /\ b65.gap_len = 128

\* C11 witness: a direct call doubled the capacity of a buffer that holds
\* elements.
C11_Witness ==
    /\ last.op = "gap_ensure_size"
    /\ len(last.pre) > 0
    /\ last.pre.gap_len < last.i
    /\ capacity(self) = 2 * capacity(last.pre)
    /\ capacity(self) > last.i
    /\ capacity(self) > MIN_NON_ZERO_CAP

\* The items the Debug rendering lists: the left run, the gap marker if
\* gap_len > 0, the right run.
Items(b) ==
    [k \in 1..b.gap_start |-> Elem(At(b.buffer, k - 1))]
    \o (IF b.gap_len > 0 THEN <<GapMark>> ELSE << >>)
    \o [k \in 1..Len(RightSlots(b)) |-> Elem(At(b.buffer, RightSlots(b)[k]))]

RECURSIVE Join(_)
\* The items with ", " between every two consecutive ones.
Join(items) ==
    IF Len(items) <= 1 THEN items
    ELSE <<Head(items), Sep>> \o Join(Tail(items))

\* C12: the Debug rendering is '[', the items (left run, "[...]" iff
\* gap_len > 0, right run) with ", " only between two consecutive items, ']'.
C12_DebugRendering ==
    last.op = "fmt" => fmt(self) = <<Open>> \o Join(Items(self)) \o <<Close>>

\* C13: after every public operation the slots of the two runs hold the
\* live elements, each once, in logical order.
C13_LiveRuns ==
    pc = "live" => Content(self) = model

\* C14: when an insert grows the buffer, the growth leaves the logical
\* content (left run, then right run) as it was.
C14_GrowthPreservesRuns ==
    Inserted =>
        LET m == gap_move_to(last.pre, last.i)
            g == gap_ensure_size(m, 1)
        IN  capacity(g) > capacity(m) =>
                /\ g.gap_start = m.gap_start
                /\ Content(g) = Content(m)

\* C15: 0 <= gap_start <= buffer_capacity and 0 <= gap_len <=
\* buffer_capacity - gap_start in every state, so that gap_start <= len()
\* and no subtraction of len(), insert or drop underflows.
C15_IndexInvariant ==
    /\ 0 <= self.gap_start
    /\ self.gap_start <= self.buffer_capacity
    /\ 0 <= self.gap_len
    /\ self.gap_len <= self.buffer_capacity - self.gap_start
    /\ self.gap_start <= len(self)
    /\ Inserted =>
          gap_ensure_size(gap_move_to(last.pre, last.i), 1).gap_len >= 1

\* C15 witness: an insert in front of other elements grew the buffer.
C15_Witness ==
    /\ Inserted
    /\ capacity(self) > capacity(last.pre)
    /\ capacity(last.pre) > 0
    /\ self.gap_start < len(self)
    /\ self.gap_len > 0

\* C16: after gap_ensure_size(s) gap_len >= s, and a second call with the
\* same s changes nothing.
C16_EnsurePostcondition ==
    last.op = "gap_ensure_size" =>
        /\ self.gap_len >= last.i
        /\ gap_ensure_size(self, last.i) = self

\* C17: gap_move_to(i) sets gap_start to i, keeps gap_len, buffer_capacity
\* and the logical content, does nothing for i = gap_start, and otherwise
\* rewrites exactly the |i - gap_start| slots the run is moved to.
C17_MoveTo ==
    last.op = "gap_move_to" =>
        LET p == last.pre
            i == last.i
            n == IF i < p.gap_start THEN p.gap_start - i ELSE i - p.gap_start
            src == IF i < p.gap_start THEN i ELSE p.gap_start + p.gap_len
            dst == IF i < p.gap_start THEN i + p.gap_len ELSE p.gap_start
        IN  /\ self.gap_start = i
            /\ self.gap_len = p.gap_len
            /\ self.buffer_capacity = p.buffer_capacity
            /\ Content(self) = Content(p)
            /\ i = p.gap_start => self = p
            /\ \A k \in 0..(p.buffer_capacity - 1) :
                  At(self.buffer, k) =
                      IF k >= dst /\ k < dst + n
                      THEN At(p.buffer, k - dst + src)
                      ELSE At(p.buffer, k)

\* C17 witness: a move to the left of more elements than the gap is long,
\* so that source and destination overlap.
C17_Witness ==
    /\ last.op = "gap_move_to"
    /\ last.i < last.pre.gap_start
    /\ last.pre.gap_len > 0
    /\ last.pre.gap_start - last.i > last.pre.gap_len
    /\ Content(self) = Content(last.pre)

\* The layout of the region as it was allocated: none for no region.
Allocated(b) == IF Len(b.buffer) = 0 THEN << >> ELSE <<Len(b.buffer)>>

\* C18: a region is allocated iff buffer_capacity > 0, of exactly
\* buffer_capacity slots, so that every grow passes the layout the region
\* has; new() allocates nothing; drop deallocates the region once, with
\* that layout, and deallocates nothing when buffer_capacity = 0.
C18_Allocation ==
    /\ Len(self.buffer) = self.buffer_capacity
    /\ buffer_layout(self) = Allocated(self)
    /\ last.op = "new" => Allocated(self) = << >>
    /\ pc = "live" => heap = << >>
    /\ pc \in {"dropped", "boxed"} => heap = Allocated(self)

\* C18 witness: a buffer that has grown past its first allocation is dropped.
C18_Witness ==
    /\ pc = "dropped"
    /\ capacity(self) > MIN_NON_ZERO_CAP
    /\ heap = <<capacity(self)>>

\* C19: MIN_NON_ZERO_CAP is 8 for 1-byte elements, 4 for elements of 2 to
\* 1024 bytes and 1 for larger ones, and the first growth of an empty
\* buffer for a gap of 1 gives capacity = gap_len = MIN_NON_ZERO_CAP.
C19_MinNonZeroCap ==
    /\ elem_size = 1 => MIN_NON_ZERO_CAP = 8
    /\ elem_size \in 2..1024 => MIN_NON_ZERO_CAP = 4
    /\ elem_size > 1024 => MIN_NON_ZERO_CAP = 1
    /\ gap_ensure_size(New, 1).buffer_capacity = MIN_NON_ZERO_CAP
    /\ gap_ensure_size(New, 1).gap_len = MIN_NON_ZERO_CAP
    /\ (last.op = "push" /\ last.pre = New) =>
          /\ capacity(self) = MIN_NON_ZERO_CAP
          /\ self.gap_len = MIN_NON_ZERO_CAP - 1

\* C19 witness: the first push of a 1024-byte element.
C19_Witness ==
    /\ last.op = "push"
    /\ last.pre = New
    /\ elem_size = 1024
    /\ capacity(self) = 4
    /\ self.gap_len = 3

====
